---- MODULE Spec2Model ----
(***************************************************************************)
(* Model of tracker.py, the Polymarket Ukraine activity tracker: one run   *)
(* fetches the markets (tag queries, then a keyword scan of the unfiltered *)
(* listing), loads the previous snapshot, builds and writes the report,    *)
(* and saves the new snapshot.                                             *)
(*                                                                         *)
(* Numbers are integers counted in thousandths: 1300000 is 1300.000 and a  *)
(* price change of 50 is 0.050.  round(x, 2) therefore rounds to a         *)
(* multiple of 10.  A JSON object is a TLA+ record; a key the object lacks *)
(* is a field the record lacks.  The slug "" stands for a missing, null or *)
(* empty slug.                                                             *)
(***************************************************************************)
EXTENDS Integers, Sequences, FiniteSets, TLC

VARIABLES
    pc,           \* position of main: start, resolve, tag_page, scan, fetched, loaded, reported, done
    run,          \* number of the current run of the scheduled job
    tagIdx,       \* index into TAG_SLUGS of the tag being queried
    offset,       \* offset of the pagination loop in progress
    tag_markets,  \* fetch_markets_by_tag's all_markets, then the caller's markets
    seen_slugs,   \* fetch_all_ukraine_markets' seen_slugs
    all_markets,  \* fetch_all_ukraine_markets' all_markets
    markets,      \* main's markets
    prev,         \* main's prev
    report,       \* main's report
    outputFile,   \* content of OUTPUT_FILE
    historyFile,  \* content of HISTORY_FILE
    clock,        \* the wall clock, read by datetime.now
    resp,         \* kind of the upstream's answer to the request just made
    upstream      \* the records the listing endpoint serves during this run

vars ==
    <<pc, run, tagIdx, offset, tag_markets, seen_slugs, all_markets, markets,
      prev, report, outputFile, historyFile, clock, resp, upstream>>

(***************************************************************************)
(* Bounds of the model.                                                    *)
(***************************************************************************)
\* Longest market list handed to build_report by the report specification.
MaxMarkets == 3
\* Runs of the job in one behaviour.
MaxRuns == 2
\* Full pages a finite upstream answers to one tag query before it runs short.
MaxTagPages == 1
\* Records the upstream serves during one run of the run specification.
MaxUpstream == 2

(***************************************************************************)
(* Program constants.  The page size and the list sizes are scaled down so *)
(* that full pages, the scan cap and truncated rankings occur within the   *)
(* bounds: limit is 100, the scan cap 2000 (20 pages) and the list sizes   *)
(* 100 and 50 in the source.                                               *)
(***************************************************************************)
limit == 2
ScanCap == 4
TopVolume == 2
TopMovers == 2

TAG_SLUGS == <<"ukraine-map", "ukraine", "russia-ukraine">>

\* 100 and 1000 in thousandths: the spike and the heat thresholds.
SpikeThreshold == 100 * 1000
HeatThreshold == 1000 * 1000

(***************************************************************************)
(* Python helpers.                                                         *)
(***************************************************************************)
EmptyDict == [k \in {} |-> 0]

Has(m, f) == f \in DOMAIN m

\* bool(m.get(f)) for a number
Truthy(m, f) == Has(m, f) /\ m[f] # 0

\* m.get(f) or 0, and m.get(f, 0)
OrZero(m, f) == IF Has(m, f) THEN m[f] ELSE 0

\* {**d, **extra}
Merged(d, extra) ==
    [f \in DOMAIN d \cup DOMAIN extra |-> IF f \in DOMAIN extra THEN extra[f] ELSE d[f]]

abs(x) == IF x < 0 THEN -x ELSE x

Min(a, b) == IF a < b THEN a ELSE b

Range(s) == {s[i] : i \in DOMAIN s}

\* The integer nearest to n / d (d > 0), a tie going to the even one.
RoundDiv(n, d) ==
    LET q == n \div d
        r == n % d
    IN  IF 2 * r < d THEN q
        ELSE IF 2 * r > d THEN q + 1
        ELSE IF q % 2 = 0 THEN q ELSE q + 1

\* round(x, 2) of a number of thousandths
round2(x) == 10 * RoundDiv(x, 10)

\* s[:k]
Take(s, k) == SubSeq(s, 1, Min(k, Len(s)))

sorted_unstable(s) ==
    LET pos(i) == 1 + Cardinality({j \in DOMAIN s :
                        \/ s[j].key > s[i].key
                        \/ s[j].key = s[i].key /\ j > i})
    IN  [p \in DOMAIN s |-> s[CHOOSE i \in DOMAIN s : pos(i) = p]]

\* sorted(s, key=..., reverse=True) of a list of [key, item] pairs: descending
\* by key, equal keys staying in the order of s.
sorted_reverse(s) ==
    LET pos(i) == 1 + Cardinality({j \in DOMAIN s :
                        \/ s[j].key > s[i].key
                        \/ s[j].key = s[i].key /\ j < i})
    IN  [p \in DOMAIN s |-> s[CHOOSE i \in DOMAIN s : pos(i) = p]]

\* datetime.now(timezone.utc).isoformat() at clock reading n
TimeStrings ==
    <<"t01", "t02", "t03", "t04", "t05", "t06", "t07", "t08", "t09", "t10", "t11", "t12">>

isoformat(n) == TimeStrings[n]

(***************************************************************************)
(* The snapshot store: load_previous_snapshot and save_snapshot.  A file   *)
(* is absent, holds text json.load rejects (corrupt), or holds a JSON      *)
(* document, kept as the value json.dump wrote and json.load returns.      *)
(***************************************************************************)
NoFile == [state |-> "absent"]

CorruptFile == [state |-> "corrupt"]

JsonFile(data) == [state |-> "json", data |-> data]

load_stale_sentinel(file) ==
    IF file.state = "json" THEN file.data
    ELSE [timestamp |-> "unknown", markets |-> EmptyDict]

load_previous_snapshot(file) ==
    IF file.state = "json" THEN file.data ELSE EmptyDict

\* The slugs save_snapshot writes an entry for.
SnapshotSlugs(ms) == {ms[i].slug : i \in DOMAIN ms} \ {""}

\* snapshot["markets"][slug] = {...}: a later record of the same slug overwrites.
SnapshotEntry(ms, slug) ==
    LET last == CHOOSE i \in DOMAIN ms :
                    /\ ms[i].slug = slug
                    /\ \A j \in DOMAIN ms : ms[j].slug = slug => j <= i
        m == ms[last]
    IN  [volumeNum |-> OrZero(m, "volumeNum"),
         volume24hr |-> OrZero(m, "volume24hr"),
         lastTradePrice |-> OrZero(m, "lastTradePrice")]

save_snapshot_merging(ms, old, now) ==
    LET kept == IF old.state = "json" /\ Has(old.data, "markets")
                THEN old.data.markets ELSE EmptyDict
    IN  [timestamp |-> now,
         markets |-> [s \in DOMAIN kept \cup SnapshotSlugs(ms) |->
                        IF s \in SnapshotSlugs(ms) THEN SnapshotEntry(ms, s) ELSE kept[s]]]

\* The document save_snapshot writes over HISTORY_FILE (old is the file's
\* content before the write, which open(..., 'w') discards).
save_snapshot(ms, old, now) ==
    [timestamp |-> now,
     markets |-> [s \in SnapshotSlugs(ms) |-> SnapshotEntry(ms, s)]]

(***************************************************************************)
(* The metrics engine: build_report.                                       *)
(***************************************************************************)
\* The items of a sorted list of [key, item] pairs.
Items(s) == [i \in DOMAIN s |-> s[i].item]

\* The projection every entry carries.  eventSlug, currentPrice,
\* lastTradePrice, endDate and market_type are further projections of the
\* record that no ranking reads; they are left out.
simplify(m) ==
    [slug |-> m.slug,
     question |-> IF Has(m, "question") THEN m.question ELSE <<>>,
     volume24hr |-> round2(OrZero(m, "volume24hr")),
     volumeNum |-> round2(OrZero(m, "volumeNum"))]

top_volume_24h(ms) ==
    LET kept == SelectSeq(ms, LAMBDA m : Truthy(m, "volume24hr"))
        keyed == [i \in DOMAIN kept |->
                    [key |-> OrZero(kept[i], "volume24hr"), item |-> kept[i]]]
    IN  Take(Items(sorted_reverse(keyed)), TopVolume)

top_volume_total(ms) ==
    LET kept == SelectSeq(ms, LAMBDA m : Truthy(m, "volumeNum"))
        keyed == [i \in DOMAIN kept |->
                    [key |-> OrZero(kept[i], "volumeNum"), item |-> kept[i]]]
    IN  Take(Items(sorted_reverse(keyed)), TopVolume)

\* round((v24 / vtotal) * 100, 2); volume24hr stays below 214.748 in the model,
\* so that the product fits the 32-bit integers of the checker
heat_score(m) ==
    10 * RoundDiv(OrZero(m, "volume24hr") * 100 * 100, OrZero(m, "volumeNum"))

hot(ms) ==
    LET kept == SelectSeq(ms, LAMBDA m : OrZero(m, "volumeNum") > HeatThreshold)
        keyed == [i \in DOMAIN kept |->
                    [key |-> heat_score(kept[i]),
                     item |-> [market |-> kept[i], heat_score |-> heat_score(kept[i])]]]
    IN  Take(Items(sorted_reverse(keyed)), TopVolume)

movers_1h(ms) ==
    LET kept == SelectSeq(ms, LAMBDA m : Has(m, "oneHourPriceChange"))
        keyed == [i \in DOMAIN kept |->
                    [key |-> abs(OrZero(kept[i], "oneHourPriceChange")), item |-> kept[i]]]
    IN  Take(Items(sorted_reverse(keyed)), TopMovers)

movers_24h(ms) ==
    LET kept == SelectSeq(ms, LAMBDA m : Has(m, "oneDayPriceChange"))
        keyed == [i \in DOMAIN kept |->
                    [key |-> abs(OrZero(kept[i], "oneDayPriceChange")), item |-> kept[i]]]
    IN  Take(Items(sorted_reverse(keyed)), TopMovers)

\* delta = curr - prev
volume_delta(m, prev_markets) ==
    OrZero(m, "volumeNum") - OrZero(prev_markets[m.slug], "volumeNum")

spikes_not_strict(ms, prev_markets) ==
    LET kept == SelectSeq(ms, LAMBDA m : /\ m.slug \in DOMAIN prev_markets
                                         /\ volume_delta(m, prev_markets) >= SpikeThreshold)
        keyed == [i \in DOMAIN kept |->
                    [key |-> round2(volume_delta(kept[i], prev_markets)),
                     item |-> [market |-> kept[i],
                               delta |-> round2(volume_delta(kept[i], prev_markets))]]]
    IN  Take(Items(sorted_reverse(keyed)), TopMovers)

spikes(ms, prev_markets) ==
    LET kept == SelectSeq(ms, LAMBDA m : /\ m.slug \in DOMAIN prev_markets
                                         /\ volume_delta(m, prev_markets) > SpikeThreshold)
        keyed == [i \in DOMAIN kept |->
                    [key |-> round2(volume_delta(kept[i], prev_markets)),
                     item |-> [market |-> kept[i],
                               delta |-> round2(volume_delta(kept[i], prev_markets))]]]
    IN  Take(Items(sorted_reverse(keyed)), TopMovers)

\* [{**entry, "rank": i+1} for i, entry in enumerate(entries)]
ranked(entries) == [i \in DOMAIN entries |-> Merged(entries[i], [rank |-> i])]

\* round((m.get(f) or 0) * 100, 2)
price_change(m, f) == round2(OrZero(m, f) * 100)

build_report(ms, previous_snapshot, now) ==
    LET prev_markets == IF Has(previous_snapshot, "markets")
                        THEN previous_snapshot.markets ELSE EmptyDict
        v24 == top_volume_24h(ms)
        vtotal == top_volume_total(ms)
        hottest == hot(ms)
        m1h == movers_1h(ms)
        m24h == movers_24h(ms)
        spiked == spikes(ms, prev_markets)
    IN  [generated_at |-> now,
         previous_snapshot |-> IF Has(previous_snapshot, "timestamp")
                               THEN previous_snapshot.timestamp ELSE "none",
         total_markets |-> Len(ms),
         top_volume_24h |-> ranked([i \in DOMAIN v24 |-> simplify(v24[i])]),
         top_volume_total |-> ranked([i \in DOMAIN vtotal |-> simplify(vtotal[i])]),
         hottest_markets |-> ranked([i \in DOMAIN hottest |->
             Merged(simplify(hottest[i].market), [heat_score |-> hottest[i].heat_score])]),
         top_movers_1h |-> ranked([i \in DOMAIN m1h |->
             Merged(simplify(m1h[i]),
                    [price_change_1h |-> price_change(m1h[i], "oneHourPriceChange")])]),
         top_movers_24h |-> ranked([i \in DOMAIN m24h |->
             Merged(simplify(m24h[i]),
                    [price_change_24h |-> price_change(m24h[i], "oneDayPriceChange")])]),
         volume_spikes |-> ranked([i \in DOMAIN spiked |->
             Merged(simplify(spiked[i].market), [volume_delta |-> spiked[i].delta])])]

(***************************************************************************)
(* The market source: fetch_all_ukraine_markets.  A question is the list   *)
(* of its lower-cased words and a keyword a list of words, so that         *)
(* "kw in text" is the search for a run of words.                          *)
(***************************************************************************)
keywords ==
    { <<"ukraine">>, <<"ukrainian">>, <<"kyiv">>, <<"kiev">>, <<"zelensky">>,
      <<"zelenskyy">>, <<"crimea">>, <<"donbas">>, <<"donbass">>, <<"kherson">>,
      <<"zaporizhzhia">>, <<"mariupol">>, <<"bakhmut">>, <<"avdiivka">>,
      <<"pokrovsk">>, <<"kursk">>, <<"kharkiv">>, <<"odesa">>, <<"odessa">>,
      <<"russia", "capture">>, <<"russian", "capture">>, <<"russia", "enter">>,
      <<"russian", "forces">>, <<"putin">>, <<"moscow">>, <<"kremlin">> }

\* kw in text
Contains(text, kw) ==
    \E i \in 1..(Len(text) - Len(kw) + 1) : SubSeq(text, i, i + Len(kw) - 1) = kw

is_ukraine_related(m) ==
    LET text == (IF Has(m, "question") THEN m.question ELSE <<>>)
                \o (IF Has(m, "description") THEN m.description ELSE <<>>)
    IN  \E kw \in keywords : Contains(text, kw)

RECURSIVE merge_all(_, _, _)
merge_all(all, seen, ms) ==
    IF ms = <<>> THEN [all |-> all, seen |-> seen]
    ELSE merge_all(Append(all, Head(ms)), seen \cup {Head(ms).slug}, Tail(ms))

\* for m in markets: if m.get("slug") not in seen_slugs: add and append
RECURSIVE merge_tag(_, _, _)
merge_tag(all, seen, ms) ==
    IF ms = <<>> THEN [all |-> all, seen |-> seen]
    ELSE IF Head(ms).slug \notin seen
         THEN merge_tag(Append(all, Head(ms)), seen \cup {Head(ms).slug}, Tail(ms))
         ELSE merge_tag(all, seen, Tail(ms))

\* for m in markets: if slug and slug not in seen_slugs and
\* is_ukraine_related(m): add and append
RECURSIVE merge_scan(_, _, _)
merge_scan(all, seen, ms) ==
    IF ms = <<>> THEN [all |-> all, seen |-> seen]
    ELSE IF /\ Head(ms).slug # ""
            /\ Head(ms).slug \notin seen
            /\ is_ukraine_related(Head(ms))
         THEN merge_scan(Append(all, Head(ms)), seen \cup {Head(ms).slug}, Tail(ms))
         ELSE merge_scan(all, seen, Tail(ms))

\* The pages the upstream can answer: up to limit of the records it serves.
Pages(n) == UNION {[1..k -> upstream] : k \in 0..n}

nonFetchVars == <<run, markets, prev, report, outputFile, historyFile, clock, upstream>>

\* The tag loop moves on: the next tag, or the keyword scan after the last.
AfterTag ==
    /\ tagIdx' = tagIdx + 1
    /\ pc' = IF tagIdx < Len(TAG_SLUGS) THEN "resolve" ELSE "scan"
    /\ offset' = 0

\* resolve_tag_id answers an id: the tag's pagination starts.
ResolveTagFound ==
    /\ pc = "resolve"
    /\ resp' = "tag"
    /\ pc' = "tag_page"
    /\ offset' = 0
    /\ tag_markets' = <<>>
    /\ UNCHANGED <<tagIdx, seen_slugs, all_markets, nonFetchVars>>

\* resolve_tag_id returns None: a status other than 200, no id in the answer,
\* or an exception of the request or of its parse.  The tag is skipped.
ResolveTagNone ==
    /\ pc = "resolve"
    /\ resp' \in {"no_tag", "tag_error"}
    /\ AfterTag
    /\ UNCHANGED <<tag_markets, seen_slugs, all_markets, nonFetchVars>>

\* fetch_markets_by_tag returns gathered, and lines 152-155 merge it.
TagReturns(gathered) ==
    LET merged == merge_tag(all_markets, seen_slugs, gathered)
    IN  /\ tag_markets' = gathered
        /\ all_markets' = merged.all
        /\ seen_slugs' = merged.seen
        /\ AfterTag

page_failure_raises(gathered) == [raised |-> TRUE, markets |-> <<>>]

\* except Exception: break, then return all_markets: the exception of a page
\* is not raised, and the loop ends with what it has gathered.
page_failure(gathered) == [raised |-> FALSE, markets |-> gathered]

\* A page of the tag listing fails (the request, its status or its parse).
TagPageFail ==
    /\ pc = "tag_page"
    /\ resp' = "fail"
    /\ LET res == page_failure(tag_markets)
       IN  IF res.raised
           THEN /\ pc' = "raised"
                /\ UNCHANGED <<tagIdx, offset, tag_markets, seen_slugs, all_markets>>
           ELSE TagReturns(res.markets)
    /\ UNCHANGED nonFetchVars

\* A page of the tag listing arrives: an empty one breaks the loop, a short
\* one is gathered and breaks it, a full one is gathered and the loop goes on.
\* A finite upstream answers full pages below offset MaxTagPages * limit only.
TagPage ==
    /\ pc = "tag_page"
    /\ resp' = "page"
    /\ \E page \in Pages(limit) :
          /\ Len(page) = limit => offset < MaxTagPages * limit
          /\ IF page = <<>> THEN TagReturns(tag_markets)
             ELSE IF Len(page) < limit THEN TagReturns(tag_markets \o page)
             ELSE /\ tag_markets' = tag_markets \o page
                  /\ offset' = offset + limit
                  /\ UNCHANGED <<pc, tagIdx, seen_slugs, all_markets>>
    /\ UNCHANGED nonFetchVars

\* An upstream without end: past the finite part it answers every offset with
\* a full page of records it has answered before.  The source appends them
\* and asks for the next offset.  The model does not store the repeated
\* records (lines 152-155 skip every record whose slug the list holds, so the
\* merge of the returned list is the same) and counts the offsets past the
\* finite part modulo two pages.
TagPageRepeated ==
    /\ pc = "tag_page"
    /\ offset >= MaxTagPages * limit
    /\ resp' = "page"
    /\ \E page \in Pages(limit) :
          /\ Len(page) = limit
          /\ Range(page) \subseteq Range(tag_markets)
    /\ offset' = IF offset = MaxTagPages * limit THEN offset + limit ELSE offset - limit
    /\ UNCHANGED <<pc, tagIdx, tag_markets, seen_slugs, all_markets, nonFetchVars>>

\* fetch_all_ukraine_markets returns to main: markets = fetch_all_ukraine_markets()
ScanReturns(all) ==
    /\ pc' = "fetched"
    /\ markets' = all
    /\ offset' = offset

\* A page of the unfiltered listing fails: the loop breaks.
ScanPageFail ==
    /\ pc = "scan"
    /\ offset < ScanCap
    /\ resp' = "fail"
    /\ ScanReturns(all_markets)
    /\ UNCHANGED <<tagIdx, tag_markets, seen_slugs, all_markets,
                   run, prev, report, outputFile, historyFile, clock, upstream>>

\* A page of the unfiltered listing arrives: an empty one breaks the loop;
\* otherwise its related, unseen records are added, and the loop ends on a
\* short page or when the next offset reaches the cap.
ScanPage ==
    /\ pc = "scan"
    /\ offset < ScanCap
    /\ resp' = "page"
    /\ \E page \in Pages(limit) :
          LET merged == merge_scan(all_markets, seen_slugs, page)
          IN  /\ all_markets' = merged.all
              /\ seen_slugs' = merged.seen
              /\ IF Len(page) < limit \/ offset + limit >= ScanCap
                 THEN ScanReturns(merged.all)
                 ELSE /\ offset' = offset + limit
                      /\ UNCHANGED <<pc, markets>>
    /\ UNCHANGED <<tagIdx, tag_markets, run, prev, report, outputFile, historyFile,
                   clock, upstream>>

FetchNext ==
    \/ ResolveTagFound
    \/ ResolveTagNone
    \/ TagPageFail
    \/ TagPage
    \/ TagPageRepeated
    \/ ScanPageFail
    \/ ScanPage

(***************************************************************************)
(* main, from the return of fetch_all_ukraine_markets on.                  *)
(***************************************************************************)
fetchVars == <<tagIdx, offset, tag_markets, seen_slugs, all_markets, resp, upstream>>

MainEmptyWritesAnyway ==
    /\ pc = "fetched"
    /\ markets = <<>>
    /\ pc' = "loaded"
    /\ prev' = load_previous_snapshot(historyFile)
    /\ UNCHANGED <<run, markets, report, outputFile, historyFile, clock, fetchVars>>

\* if not markets: return
MainEmpty ==
    /\ pc = "fetched"
    /\ markets = <<>>
    /\ pc' = "done"
    /\ UNCHANGED <<run, markets, prev, report, outputFile, historyFile, clock, fetchVars>>

MainLoadAfterSave ==
    /\ pc = "fetched"
    /\ markets # <<>>
    /\ historyFile' = JsonFile(save_snapshot(markets, historyFile, isoformat(clock)))
    /\ prev' = load_previous_snapshot(historyFile')
    /\ clock' = clock + 1
    /\ pc' = "loaded"
    /\ UNCHANGED <<run, markets, report, outputFile, fetchVars>>

\* prev = load_previous_snapshot()
MainLoad ==
    /\ pc = "fetched"
    /\ markets # <<>>
    /\ prev' = load_previous_snapshot(historyFile)
    /\ pc' = "loaded"
    /\ UNCHANGED <<run, markets, report, outputFile, historyFile, clock, fetchVars>>

\* report = build_report(markets, prev); json.dump(report, OUTPUT_FILE)
MainReport ==
    /\ pc = "loaded"
    /\ report' = build_report(markets, prev, isoformat(clock))
    /\ outputFile' = JsonFile(report')
    /\ clock' = clock + 1
    /\ pc' = "reported"
    /\ UNCHANGED <<run, markets, prev, historyFile, fetchVars>>

\* save_snapshot(markets), and the summary printed after it
MainSave ==
    /\ pc = "reported"
    /\ historyFile' = JsonFile(save_snapshot(markets, historyFile, isoformat(clock)))
    /\ clock' = clock + 1
    /\ pc' = "done"
    /\ UNCHANGED <<run, markets, prev, report, outputFile, fetchVars>>

(***************************************************************************)
(* The report specification: main from the point where the fetch has       *)
(* returned a market list, over bounded market lists and history files.    *)
(***************************************************************************)
InputSlugs == <<"a", "b", "c", "d", "e">>

\* Upstream records without their slug.  1001 and 1004 round to the same
\* 1.00; 1400000 and 1400001 are 100 and 100.001 above 1300000.
Profiles ==
    { [volume24hr |-> 1001, volumeNum |-> 1400000, oneHourPriceChange |-> 50],
      [volume24hr |-> 1004, volumeNum |-> 1400001, oneHourPriceChange |-> -50,
       oneDayPriceChange |-> 0],
      [volume24hr |-> 200000, volumeNum |-> 1500000, oneDayPriceChange |-> 20],
      [volumeNum |-> 1500000, oneHourPriceChange |-> 10],
      [volume24hr |-> 200000, oneDayPriceChange |-> -20],
      [volume24hr |-> 0, volumeNum |-> 1000000, oneHourPriceChange |-> 0],
      [volume24hr |-> 50000, volumeNum |-> 1050000],
      [slug |-> "", volume24hr |-> 1004, volumeNum |-> 1500000, oneDayPriceChange |-> 20],
      EmptyDict }

\* Market lists as the fetch returns them: no slug twice.
ReportInputs ==
    LET lists(n) == {[i \in 1..n |-> Merged([slug |-> InputSlugs[i]], f[i])] :
                        f \in [1..n -> Profiles]}
    IN  {ms \in UNION {lists(n) : n \in 0..MaxMarkets} :
            \A i, j \in DOMAIN ms : ms[i].slug = ms[j].slug => i = j}

SnapshotOf(volumes) ==
    [s \in DOMAIN volumes |->
        [volumeNum |-> volumes[s], volume24hr |-> 0, lastTradePrice |-> 0]]

\* History files an earlier run, or a failed write, can have left.
HistoryInputs ==
    { NoFile, CorruptFile,
      JsonFile([timestamp |-> "t00", markets |-> EmptyDict]),
      JsonFile([timestamp |-> "t00",
                markets |-> SnapshotOf([a |-> 1300000, b |-> 1300000])]),
      JsonFile([timestamp |-> "t00",
                markets |-> SnapshotOf([a |-> 1000000, c |-> 1300000, z |-> 5000000])]),
      JsonFile([timestamp |-> "t00",
                markets |-> SnapshotOf([a |-> 0, b |-> 0, c |-> 0])]) }

InitReport ==
    /\ pc = "fetched"
    /\ run = 1
    /\ tagIdx = Len(TAG_SLUGS) + 1
    /\ offset = 0
    /\ tag_markets = <<>>
    /\ markets \in ReportInputs
    /\ all_markets = markets
    /\ seen_slugs = {markets[i].slug : i \in DOMAIN markets}
    /\ prev = EmptyDict
    /\ report = EmptyDict
    /\ outputFile = NoFile
    /\ historyFile \in HistoryInputs
    /\ clock = 1
    /\ resp = "none"
    /\ upstream = {}

NextReport == MainEmpty \/ MainLoad \/ MainReport \/ MainSave

SpecReport == InitReport /\ [][NextReport]_vars

(***************************************************************************)
(* Properties of the report.                                               *)
(***************************************************************************)
RankingLists ==
    {"top_volume_24h", "top_volume_total", "hottest_markets",
     "top_movers_1h", "top_movers_24h", "volume_spikes"}

\* main holds a report built from markets and prev.
ReportBuilt == report # EmptyDict

\* The place in the input list of the record an entry was made from.
InputPos(e) == CHOOSE i \in DOMAIN markets : markets[i].slug = e.slug

SourceOf(e) == markets[InputPos(e)]

\* The metric an entry of a list reports.
ReportedMetric(list, e) ==
    CASE list = "top_volume_24h" -> e.volume24hr
      [] list = "top_volume_total" -> e.volumeNum
      [] list = "hottest_markets" -> e.heat_score
      [] list = "top_movers_1h" -> abs(e.price_change_1h)
      [] list = "top_movers_24h" -> abs(e.price_change_24h)
      [] list = "volume_spikes" -> e.volume_delta

\* The value a list is sorted on: the upstream value before the entry rounds
\* it for the volume and mover lists, the rounded score or delta otherwise.
SortKey(list, e) ==
    CASE list = "top_volume_24h" -> OrZero(SourceOf(e), "volume24hr")
      [] list = "top_volume_total" -> OrZero(SourceOf(e), "volumeNum")
      [] list = "hottest_markets" -> e.heat_score
      [] list = "top_movers_1h" -> abs(OrZero(SourceOf(e), "oneHourPriceChange"))
      [] list = "top_movers_24h" -> abs(OrZero(SourceOf(e), "oneDayPriceChange"))
      [] list = "volume_spikes" -> e.volume_delta

DenseRanks(L) == \A i \in DOMAIN L : L[i].rank = i

NonIncreasing(list, L) ==
    \A i, j \in DOMAIN L : i < j => ReportedMetric(list, L[i]) >= ReportedMetric(list, L[j])

\* C1 as stated: in each of the six ranking lists of a report the ranks are
\* 1..N in list order, the reported metric is non-increasing, and entries
\* whose reported metric is equal are in input order.
C1_RankedByReportedMetric ==
    ReportBuilt =>
        \A list \in RankingLists :
            LET L == report[list]
            IN  /\ DenseRanks(L)
                /\ NonIncreasing(list, L)
                /\ \A i, j \in DOMAIN L :
                      i < j /\ ReportedMetric(list, L[i]) = ReportedMetric(list, L[j])
                          => InputPos(L[i]) < InputPos(L[j])

\* C1 (amended): in each of the six ranking lists of a report the ranks are
\* 1..N in list order, the reported metric is non-increasing, and entries
\* whose sort keys are equal are in input order.
C1_RankedBySortKey ==
    ReportBuilt =>
        \A list \in RankingLists :
            LET L == report[list]
            IN  /\ DenseRanks(L)
                /\ NonIncreasing(list, L)
                /\ \A i, j \in DOMAIN L :
                      i < j /\ SortKey(list, L[i]) = SortKey(list, L[j])
                          => InputPos(L[i]) < InputPos(L[j])

\* A report with a tie of sort keys, a tie that only the rounding makes, and a
\* truncated list.
C1_Witness ==
    /\ ReportBuilt
    /\ Len(markets) > TopVolume
    /\ Len(report.top_volume_total) = TopVolume
    /\ SortKey("top_volume_total", report.top_volume_total[1])
         = SortKey("top_volume_total", report.top_volume_total[2])
    /\ Len(report.top_volume_24h) = 2
    /\ report.top_volume_24h[1].volume24hr = report.top_volume_24h[2].volume24hr
    /\ SortKey("top_volume_24h", report.top_volume_24h[1])
         > SortKey("top_volume_24h", report.top_volume_24h[2])

\* The market mapping of the snapshot build_report was given.
PrevMarkets == IF Has(prev, "markets") THEN prev.markets ELSE EmptyDict

Delta(m) == OrZero(m, "volumeNum") - OrZero(PrevMarkets[m.slug], "volumeNum")

Qualifies(m) == m.slug \in DOMAIN PrevMarkets /\ Delta(m) > SpikeThreshold

\* C2: every entry of volume_spikes has a slug that is a key of the previous
\* snapshot's mapping and a delta (current volumeNum minus previous volumeNum)
\* strictly above 100, and when at most the list size of markets qualify, all
\* of them are entries.
C2_SpikesExact ==
    ReportBuilt =>
        /\ \A e \in Range(report.volume_spikes) :
              /\ e.slug \in DOMAIN PrevMarkets
              /\ Delta(SourceOf(e)) > SpikeThreshold
              /\ e.volume_delta = round2(Delta(SourceOf(e)))
        /\ Cardinality({i \in DOMAIN markets : Qualifies(markets[i])}) <= TopMovers
              => \A i \in DOMAIN markets :
                    Qualifies(markets[i])
                        => \E e \in Range(report.volume_spikes) : e.slug = markets[i].slug

\* A report with a spike of 200, beside a market exactly 100 above its
\* previous volume and a market of large volume the snapshot does not hold.
C2_Witness ==
    /\ ReportBuilt
    /\ \E e \in Range(report.volume_spikes) : e.volume_delta = 200 * 1000
    /\ \E i \in DOMAIN markets :
          /\ markets[i].slug \in DOMAIN PrevMarkets
          /\ Delta(markets[i]) = SpikeThreshold
    /\ \E i \in DOMAIN markets :
          /\ markets[i].slug \notin DOMAIN PrevMarkets
          /\ OrZero(markets[i], "volumeNum") >= 1500000

\* C4: when the snapshot file is absent or does not parse, the load returns
\* the empty snapshot, and the report built from it names the sentinel "none"
\* as its previous snapshot and lists no volume spike.
C4_NoSnapshot ==
    historyFile.state # "json" =>
        /\ pc = "loaded" => prev = EmptyDict
        /\ pc = "reported" =>
              /\ report.previous_snapshot = "none"
              /\ report.volume_spikes = <<>>

\* A report of several markets, one of large volume, built beside a history
\* file that does not parse.
C4_Witness ==
    /\ pc = "reported"
    /\ historyFile = CorruptFile
    /\ Len(markets) >= 2
    /\ \E i \in DOMAIN markets : OrZero(markets[i], "volumeNum") >= 1500000

\* The numeric field each ranking's metric uses.
FieldCategories ==
    [volume24hr |-> {"top_volume_24h", "hottest_markets"},
     volumeNum |-> {"top_volume_total", "hottest_markets", "volume_spikes"},
     oneHourPriceChange |-> {"top_movers_1h"},
     oneDayPriceChange |-> {"top_movers_24h"}]

InList(rep, list, slug) == \E e \in Range(rep[list]) : e.slug = slug

\* Values a missing field could have had.
FillValues == {1004, 1500000}

\* C9: a market lacking a numeric field a category's metric uses is absent
\* from that category, and is in each other category exactly when it would be
\* with the field present.
C9_MissingFieldExcluded ==
    ReportBuilt =>
        \A i \in DOMAIN markets : \A f \in DOMAIN FieldCategories :
            ~Has(markets[i], f) =>
                /\ \A list \in FieldCategories[f] : ~InList(report, list, markets[i].slug)
                /\ \A v \in FillValues :
                      LET filled == [markets EXCEPT ![i] = Merged(@, [f |-> v])]
                          rep == build_report(filled, prev, report.generated_at)
                      IN  \A list \in RankingLists \ FieldCategories[f] :
                              InList(rep, list, markets[i].slug)
                                  <=> InList(report, list, markets[i].slug)

(***************************************************************************)
(* The run specification: the scheduled job run after run, each run        *)
(* against an upstream serving a few records of Universe; and the fetch    *)
(* specification: one run against any small upstream.                      *)
(***************************************************************************)
mA1 ==
    [slug |-> "a", question |-> <<"will", "russia", "capture", "pokrovsk">>,
     volumeNum |-> 1300000, volume24hr |-> 1001, oneHourPriceChange |-> 50]

\* The market of mA1 some hours later.
mA2 ==
    [slug |-> "a", question |-> <<"will", "russia", "capture", "pokrovsk">>,
     volumeNum |-> 1500000, volume24hr |-> 200000, oneHourPriceChange |-> -20]

mB ==
    [slug |-> "b", question |-> <<"kyiv", "ceasefire">>,
     volumeNum |-> 1400001, lastTradePrice |-> 350]

\* A market no keyword matches; a tag query may still list it.
mC == [slug |-> "c", question |-> <<"rain", "in", "paris">>, volumeNum |-> 2000000]

mNoSlug == [slug |-> "", question |-> <<"zelensky", "out">>, volume24hr |-> 1004]

Universe == {mA1, mA2, mB, mC, mNoSlug}

\* What the upstream can serve during the run of the fetch specification.
Upstreams == {u \in SUBSET Universe : Cardinality(u) <= MaxUpstream}

\* What the upstream can serve during a run of the run specification.
RunUpstreams == {{}, {mA1, mB}, {mA2}, {mC, mNoSlug}}

\* What the history file holds before the first run.
InitialHistory ==
    { NoFile, CorruptFile,
      JsonFile([timestamp |-> "t00",
                markets |-> SnapshotOf([a |-> 1300000, z |-> 5000000])]) }

\* The locals of a run at its start: main calls fetch_all_ukraine_markets,
\* which resolves its first tag.
RunStarts ==
    /\ pc' = "resolve"
    /\ tagIdx' = 1
    /\ offset' = 0
    /\ tag_markets' = <<>>
    /\ seen_slugs' = {}
    /\ all_markets' = <<>>
    /\ markets' = <<>>
    /\ prev' = EmptyDict
    /\ report' = EmptyDict
    /\ resp' = "none"

Init ==
    /\ pc = "resolve"
    /\ run = 1
    /\ tagIdx = 1
    /\ offset = 0
    /\ tag_markets = <<>>
    /\ seen_slugs = {}
    /\ all_markets = <<>>
    /\ markets = <<>>
    /\ prev = EmptyDict
    /\ report = EmptyDict
    /\ outputFile = NoFile
    /\ historyFile \in InitialHistory
    /\ clock = 1
    /\ resp = "none"
    /\ upstream \in RunUpstreams

\* The scheduler starts the next run; the files stay, the upstream has moved.
NextRun ==
    /\ pc = "done"
    /\ run < MaxRuns
    /\ run' = run + 1
    /\ RunStarts
    /\ upstream' \in RunUpstreams
    /\ UNCHANGED <<outputFile, historyFile, clock>>

MainNext == MainEmpty \/ MainLoad \/ MainReport \/ MainSave

Next == FetchNext \/ MainNext \/ NextRun

Spec == Init /\ [][Next]_vars

\* One run of the job.
InitFetch ==
    /\ pc = "resolve"
    /\ run = 1
    /\ tagIdx = 1
    /\ offset = 0
    /\ tag_markets = <<>>
    /\ seen_slugs = {}
    /\ all_markets = <<>>
    /\ markets = <<>>
    /\ prev = EmptyDict
    /\ report = EmptyDict
    /\ outputFile = NoFile
    /\ historyFile = NoFile
    /\ clock = 1
    /\ resp = "none"
    /\ upstream \in Upstreams

RunNext == FetchNext \/ MainNext

SpecFetch == InitFetch /\ [][RunNext]_vars

\* The run takes its next step as long as it has one.
FairSpec == InitFetch /\ [][RunNext]_vars /\ WF_vars(RunNext)

(***************************************************************************)
(* Properties of the runs.                                                 *)
(***************************************************************************)
FetchPcs == {"resolve", "tag_page", "scan"}

NoSlugTwice(ms) == \A i, j \in DOMAIN ms : ms[i].slug = ms[j].slug => i = j

IsPrefix(s, t) == Len(s) <= Len(t) /\ SubSeq(t, 1, Len(s)) = s

\* C3: a run whose fetch returns the empty list ends without a write: no step
\* of the fetch and no step of main after an empty fetch changes the report
\* file or the snapshot file, and main goes from the empty fetch to its end.
C3_EmptyFetchWritesNothing ==
    [][ /\ pc \in FetchPcs \/ (pc = "fetched" /\ markets = <<>>)
            => outputFile' = outputFile /\ historyFile' = historyFile
        /\ pc = "fetched" /\ markets = <<>> => pc' = "done" ]_vars

\* A second run has ended on an empty fetch, though the upstream serves
\* records, beside the files the first run wrote.
C3_Witness ==
    /\ run = 2
    /\ pc = "done"
    /\ markets = <<>>
    /\ upstream # {}
    /\ outputFile.state = "json"
    /\ historyFile.state = "json"
    /\ historyFile.data.timestamp # "t00"

\* C5: the list fetch_all_ukraine_markets builds and returns never holds two
\* records of the same slug.
C5_NoDuplicateSlugs ==
    /\ NoSlugTwice(all_markets)
    /\ NoSlugTwice(markets)

\* A fetch has returned two markets after a tag query whose pages held the
\* same slug twice.
C5_Witness ==
    /\ pc = "fetched"
    /\ Len(markets) >= 2
    /\ ~NoSlugTwice(tag_markets)

\* C6: the snapshot file changes only by the save of a run, and after the
\* save its mapping holds exactly one entry, with the record's values, for
\* each record with a non-empty slug of that run's market list and no other.
C6_SnapshotReplaced ==
    /\ [](pc = "done" /\ markets # <<>> =>
            /\ historyFile.state = "json"
            /\ DOMAIN historyFile.data.markets = {markets[i].slug : i \in DOMAIN markets} \ {""}
            /\ Cardinality(DOMAIN historyFile.data.markets)
                 = Cardinality({i \in DOMAIN markets : markets[i].slug # ""})
            /\ \A i \in DOMAIN markets :
                  markets[i].slug # "" =>
                      historyFile.data.markets[markets[i].slug] =
                          [volumeNum |-> OrZero(markets[i], "volumeNum"),
                           volume24hr |-> OrZero(markets[i], "volume24hr"),
                           lastTradePrice |-> OrZero(markets[i], "lastTradePrice")])
    /\ [][historyFile' # historyFile => pc = "reported" /\ pc' = "done"]_vars

\* The second run has saved, and the snapshot the first run saved held a slug
\* the second run's list lacks.
C6_Witness ==
    /\ run = 2
    /\ pc = "done"
    /\ markets # <<>>
    /\ Has(prev, "timestamp")
    /\ prev.timestamp # "t00"
    /\ \E s \in DOMAIN prev.markets : s \notin DOMAIN historyFile.data.markets

\* C7: every fetch returns: fetch_all_ukraine_markets reaches its return
\* whatever the upstream answers.
C7_FetchReturns == <>(pc = "fetched")

\* C8: a failed page is never raised to the caller and ends its loop only.
\* After a failed tag page the records gathered by that query are merged as
\* after any other end of the loop (each record whose slug the result does
\* not hold yet is in the result) and the fetch goes on to the next query;
\* after a failed scan page the fetch returns all it has gathered; and no
\* step of the fetch takes a record out of the result.
C8_PageFailureKeepsRecords ==
    [][ /\ pc' # "raised"
        /\ pc \in FetchPcs => IsPrefix(all_markets, all_markets')
        /\ resp' = "fail" /\ pc = "tag_page" =>
              /\ pc' \in {"resolve", "scan"}
              /\ \A i \in DOMAIN tag_markets :
                    \/ tag_markets[i].slug \in seen_slugs
                    \/ \E j \in 1..(i - 1) : tag_markets[j].slug = tag_markets[i].slug
                    \/ tag_markets[i] \in Range(all_markets')
        /\ resp' = "fail" /\ pc = "scan" =>
              /\ pc' = "fetched"
              /\ markets' = all_markets ]_vars

\* The second page of the scan has failed after a first page and a tag query
\* gathered records, and the fetch has returned two markets.
C8_Witness ==
    /\ pc = "fetched"
    /\ resp = "fail"
    /\ offset = limit
    /\ tag_markets # <<>>
    /\ Len(markets) = 2

\* C10: the report is built from the snapshot the file holds when the run
\* starts and is written before the save: while the report is written and
\* the save is still to come the file holds the snapshot the report was
\* built from, the file changes only after the report is written, and after
\* the save the report's previous_snapshot is not the saved snapshot's
\* timestamp.
C10_ReportBeforeSave ==
    /\ [](pc = "reported" =>
            /\ outputFile = JsonFile(report)
            /\ report = build_report(markets, load_previous_snapshot(historyFile),
                                     report.generated_at))
    /\ [](pc = "done" /\ markets # <<>> =>
            report.previous_snapshot # historyFile.data.timestamp)
    /\ [][historyFile' # historyFile =>
            /\ pc = "reported"
            /\ outputFile = JsonFile(report)
            /\ prev = load_previous_snapshot(historyFile)]_vars

\* The second run has reported a spike against the snapshot the first run
\* saved and has saved its own.
C10_Witness ==
    /\ run = 2
    /\ pc = "done"
    /\ ReportBuilt
    /\ report.previous_snapshot \notin {"none", "t00"}
    /\ report.volume_spikes # <<>>
====
